---- MODULE Spec2Model ----
(***************************************************************************)
(* Model of journal_reader.py: the start-up sequence of main() (model      *)
(* resolution, opening and positioning the journal reader), the            *)
(* wait/iterate loop, and process_entry() with its HTTP call and its       *)
(* buffered two-write append to the output file.                           *)
(*                                                                         *)
(* Text is a sequence of one-character strings.  A journal entry is a      *)
(* record [has, MESSAGE]: has = FALSE is an entry without a MESSAGE key.   *)
(* The output file is a sequence of chunks, one chunk per f.write() call.  *)
(***************************************************************************)
EXTENDS Integers, Sequences, FiniteSets, TLC

\* Largest number of records the journal holds in a run.
MaxLog == 2

\* sys.exit(1) on a fatal start-up failure; also the status of a traceback exit.
ExitFatal == 1
\* sys.exit(130) in the KeyboardInterrupt handler of the loop.
ExitInterrupted == 130

VARIABLES
    pc,              \* position of main(): see PCs
    exitStatus,      \* process exit status once pc = "exit" (0 while running)
    exitFrom,        \* the position main() was at when the process ended
    args_model,      \* args.model ("" when -m was not given)
    journal_type_arg, \* args.journal_type (NoScope when -j was not given)
    is_root,         \* os.geteuid() == 0
    legacy,          \* the journal library lacks the scope flags (AttributeError)
    prompt_template, \* args.prompt_template, a sequence of template tokens
    model_name,      \* the model name used in requests
    tagsAnswer,      \* what the model-list GET produced (NoTagsAnswer before/without it)
    tagsQueries,     \* number of GETs sent to the model-list endpoint
    readerOpen,      \* journal.Reader(...) has returned a reader
    openedScope,     \* the scope the reader was opened at (NoScope before that)
    openError,       \* the exception that opening or positioning raised ("none": none)
    log,             \* the journal: every record appended so far, in order
    nPre,            \* number of records the journal held when the reader was opened
    cursor,          \* index of the record the reader is positioned at (0: none)
    waited,          \* reader.wait() has been called and has returned
    cur,             \* index of the record bound to `entry` in process_entry (0: none)
    delivered,       \* indexes of the records passed to process_entry, in order
    batchStart,      \* Len(delivered) when the running `for entry in reader` began
    requests,        \* POST requests sent, in order: [rec, model, prompt]
    inFlight,        \* POST requests sent and not yet answered or timed out
    answer,          \* what requests.post produced, until process_entry returns
    content,         \* stripped response text held by process_entry while it writes
    fileExists,      \* the output file exists
    file,            \* contents of the output file on disk: a sequence of chunks
    handleOpen,      \* the handle `f` of the output file is open
    buf,             \* chunks written to the open handle, not yet flushed
    diag,            \* diagnostics printed by process_entry, in order: [rec, kind]
    interrupted      \* the operator has interrupted the process (SIGINT)

vars == <<pc, exitStatus, exitFrom, args_model, journal_type_arg, is_root, legacy,
          prompt_template, model_name, tagsAnswer, tagsQueries, readerOpen,
          openedScope, openError, log, nPre, cursor, waited, cur, delivered,
          batchStart, requests, inFlight, answer, content, fileExists, file,
          handleOpen, buf, diag, interrupted>>

PCs == {"start", "resolving", "open", "seek", "prev", "wait", "iter",
        "post", "recv", "opened", "wrote1", "exit"}

\* Positions inside the try block of lines 183-195.
LoopPCs == {"wait", "iter", "post", "recv", "opened", "wrote1"}

-----------------------------------------------------------------------------
(* Values *)

\* The scopes of --journal-type (lines 66-70), and its default None.
Scopes == {"system", "user"}
NoScope == "none"

\* The exceptions that lines 165-172 handle.
OpenErrors == {"FileNotFoundError", "PermissionError"}

Str(s) == [type |-> "str", val |-> s]
Bytes(s) == [type |-> "bytes", val |-> s]

\* The entries the journal can deliver: no MESSAGE key, an empty MESSAGE,
\* a binary MESSAGE (python-systemd hands undecodable data over as bytes),
\* and a text MESSAGE.
Entries ==
    { [has |-> FALSE, MESSAGE |-> Str(<<>>)],
      [has |-> TRUE, MESSAGE |-> Str(<<>>)],
      [has |-> TRUE, MESSAGE |-> Bytes(<<"x">>)],
      [has |-> TRUE, MESSAGE |-> Str(<<"x">>)] }

\* Template tokens: a literal character, the {message} field, a field of
\* another name, and a single unbalanced brace.
MessageField == "{message}"
OtherField == "{other}"
LoneBrace == "{"

Templates ==
    { <<"t", MessageField>>,
      <<"t">>,
      <<OtherField, MessageField>> }

\* Bodies of an HTTP answer to the POST.
Texts == { <<>>, <<" ">>, <<"r">>, <<" ", "r", " ">> }

Bodies ==
    { [json |-> "malformed", hasResponse |-> FALSE, response |-> Str(<<>>)],
      [json |-> "array", hasResponse |-> FALSE, response |-> Str(<<>>)],
      [json |-> "object", hasResponse |-> FALSE, response |-> Str(<<>>)],
      [json |-> "object", hasResponse |-> TRUE, response |-> [type |-> "null", val |-> <<>>]] }
    \cup { [json |-> "object", hasResponse |-> TRUE, response |-> Str(t)] : t \in Texts }

MalformedBody == [json |-> "malformed", hasResponse |-> FALSE, response |-> Str(<<>>)]

\* Status codes of a final answer: success, a 3xx answer that is not
\* followed, a server error.
Statuses == {200, 300, 500}

\* What requests.post(...) can produce: a network error or timeout, or an
\* answer with a status and a body.
PostOutcomes ==
    { [kind |-> "neterr", status |-> 0, body |-> MalformedBody] }
    \cup { [kind |-> "http", status |-> s, body |-> b] : s \in Statuses, b \in Bodies }

NoAnswer == [kind |-> "none", status |-> 0, body |-> MalformedBody]

\* Model catalogs the tags endpoint can return ('models' missing or empty: <<>>).
Catalogs == { <<>>, <<"llama3", "phi3">> }

\* What requests.get(tags_url) can produce.
TagsOutcomes ==
    { [kind |-> "neterr", status |-> 0, json |-> "malformed", models |-> <<>>] }
    \cup { [kind |-> "http", status |-> s, json |-> "malformed", models |-> <<>>] :
              s \in Statuses }
    \cup { [kind |-> "http", status |-> s, json |-> "object", models |-> c] :
              s \in Statuses, c \in Catalogs }

NoTagsAnswer == [kind |-> "none", status |-> 0, json |-> "malformed", models |-> <<>>]

-----------------------------------------------------------------------------
(* process_entry: the pure parts *)

\* entry.get('MESSAGE', '')
GetMessage(entry) == IF entry.has THEN entry.MESSAGE ELSE Str(<<>>)

\* Python truth value of a str or bytes object
Truthy(v) == v.val # <<>>

\* Mutant: the isinstance test is left out of the guard.
IsEligible_NoTypeTest(entry) == Truthy(GetMessage(entry))

\* The negation of the guard `not message or not isinstance(message, str)`.
IsEligible(entry) ==
    LET message == GetMessage(entry)
    IN  ~(~Truthy(message) \/ message.type # "str")

\* prompt_template.format(message=message) raises KeyError for a field of
\* another name and ValueError for an unbalanced brace.
FormatRaises(tpl) ==
    \E i \in 1..Len(tpl) : tpl[i] \in {OtherField, LoneBrace}

RECURSIVE Format(_, _)
Format(tpl, message) ==
    IF tpl = <<>> THEN <<>>
    ELSE (IF Head(tpl) = MessageField THEN message ELSE <<Head(tpl)>>)
         \o Format(Tail(tpl), message)

\* Mutant: the call of raise_for_status() is left out.
RaiseForStatus_Never(status) == FALSE

\* response.raise_for_status(): HTTPError for 4xx and 5xx
RaiseForStatus(status) == status >= 400

\* response.json() raises on a body that is not JSON
JsonRaises(body) == body.json = "malformed"

\* response_data.get("response", "").strip() raises AttributeError when the
\* body is not an object or the response field is not a string.
ContentRaises(body) ==
    \/ body.json # "object"
    \/ body.hasResponse /\ body.response.type # "str"

Whitespace == {" "}

RECURSIVE LStrip(_)
LStrip(s) ==
    IF s # <<>> /\ Head(s) \in Whitespace THEN LStrip(Tail(s)) ELSE s

RECURSIVE RStrip(_)
RStrip(s) ==
    IF s # <<>> /\ s[Len(s)] \in Whitespace
    THEN RStrip(SubSeq(s, 1, Len(s) - 1)) ELSE s

\* Mutant: the response text is used without strip().
Strip_None(s) == s

\* str.strip()
Strip(s) == RStrip(LStrip(s))

\* response_data.get("response", "").strip()
Content(body) ==
    Strip(IF body.hasResponse THEN body.response.val ELSE <<>>)

\* f.write(f"--- Log Entry ---\n{message}\n")
EntryChunk(rec, message) == [part |-> "entry", rec |-> rec, text |-> message]

\* f.write(f"--- Llama Analysis ---\n{content}\n\n")
AnalysisChunk(rec, text) == [part |-> "analysis", rec |-> rec, text |-> text]

\* Contents of an output file that exists before the run.
OldChunk == [part |-> "old", rec |-> 0, text |-> <<>>]

\* Mutant: the buffered chunks are put before the present contents.
Flush_Prepend(f, b) == b \o f

\* Mutant: the file is opened in mode 'w', which truncates it.
Flush_Truncate(f, b) == b

\* Leaving the with block closes the handle; a handle opened in mode 'a'
\* puts the buffered chunks after the present contents.
Flush(f, b) == f \o b

\* The handle is closed on every way out of the with block; the flush of
\* the buffer either reaches the disk or fails and leaves the file as it was.
Closed(f, b, flushOk) == IF flushOk THEN Flush(f, b) ELSE f

Report(d, rec, kind) == Append(d, [rec |-> rec, kind |-> kind])

-----------------------------------------------------------------------------
(* The journal reader *)

\* Mutant: the reader is left at the head of the journal (no seek_tail()).
GetPreviousPos_Head(l) == 0

\* reader.seek_tail() followed by reader.get_previous(): the reader is
\* positioned at the last record the journal holds (0 when it holds none).
GetPreviousPos(l) == Len(l)

\* One step of `for entry in reader`: get_next() returns the record after
\* the one the reader is positioned at ...
NextRecord(c) == c + 1

\* Mutant: the reader stays where it was.
GetNextPos_Stuck(c) == c

\* ... and leaves the reader positioned at the record it returned.
GetNextPos(c) == c + 1


-----------------------------------------------------------------------------
conf == <<args_model, journal_type_arg, is_root, legacy, prompt_template>>
tags == <<tagsAnswer, tagsQueries>>
ends == <<exitStatus, exitFrom, openError, interrupted>>
rdr == <<readerOpen, openedScope, nPre, cursor, waited, cur, delivered, batchStart>>
http == <<requests, inFlight, answer, content>>
out == <<fileExists, file, handleOpen, buf, diag>>

\* The state of the process and of its surroundings when main() begins,
\* whatever the command line is.
InitRun ==
    /\ pc = "start"
    /\ exitStatus = 0
    /\ exitFrom = "none"
    /\ interrupted = FALSE
    /\ model_name = ""
    /\ tagsAnswer = NoTagsAnswer
    /\ tagsQueries = 0
    /\ readerOpen = FALSE
    /\ openedScope = NoScope
    /\ openError = "none"
    /\ log = <<>>
    /\ nPre = 0
    /\ cursor = 0
    /\ waited = FALSE
    /\ cur = 0
    /\ delivered = <<>>
    /\ batchStart = 0
    /\ requests = <<>>
    /\ inFlight = 0
    /\ answer = NoAnswer
    /\ content = <<>>
    /\ file = IF fileExists THEN <<OldChunk>> ELSE <<>>
    /\ handleOpen = FALSE
    /\ buf = <<>>
    /\ diag = <<>>

\* Every model option and template, and either state of the output file;
\* the process is unprivileged, gets no -j and has the modern library.
Init ==
    /\ args_model \in {"", "mistral"}
    /\ prompt_template \in Templates
    /\ fileExists \in BOOLEAN
    /\ journal_type_arg = NoScope
    /\ is_root = FALSE
    /\ legacy = FALSE
    /\ InitRun

\* Every scope option, privilege and level of the journal library, for a
\* command line with a model and a valid template and for one with neither.
ScopeInit ==
    /\ journal_type_arg \in Scopes \cup {NoScope}
    /\ is_root \in BOOLEAN
    /\ legacy \in BOOLEAN
    /\ \/ args_model = "mistral" /\ prompt_template = <<"t", MessageField>>
       \/ args_model = "" /\ prompt_template = <<OtherField, MessageField>>
    /\ fileExists = FALSE
    /\ InitRun

\* The process ends with the given status.
Exit(status) ==
    /\ pc' = "exit"
    /\ exitStatus' = status
    /\ exitFrom' = pc

\* The journal daemon appends a record; it does so at any time.
AppendLog ==
    /\ pc # "exit"
    /\ Len(log) < MaxLog
    /\ \E e \in Entries : log' = Append(log, e)
    /\ UNCHANGED <<pc, model_name, tags, conf, ends, rdr, http, out>>

\* Lines 100-110: parse the arguments; without a model, send the GET.
Start ==
    /\ pc = "start"
    /\ model_name' = args_model
    /\ pc' = IF args_model = "" THEN "resolving" ELSE "open"
    /\ tagsQueries' = IF args_model = "" THEN tagsQueries + 1 ELSE tagsQueries
    /\ UNCHANGED <<tagsAnswer, log, conf, ends, rdr, http, out>>

\* Mutant: the status of the answer is not looked at.
ResolveAborts_NoStatusTest(o) ==
    \/ o.kind = "neterr"
    \/ o.json = "malformed"
    \/ o.models = <<>>

\* Lines 110-117, 122-124: the cases in which the answer to the GET ends the
\* process: requests raises (network error, timeout), raise_for_status()
\* raises, the body is not JSON, or 'models' is missing or empty.
ResolveAborts(o) ==
    \/ o.kind = "neterr"
    \/ RaiseForStatus(o.status)
    \/ o.json = "malformed"
    \/ o.models = <<>>

\* Mutant: the last entry of the catalog is taken.
FirstModel_Last(catalog) == catalog[Len(catalog)]

\* Line 119: models_data['models'][0]['name']
FirstModel(catalog) == catalog[1]

\* Lines 109-124: the GET fails or lists no model: exit 1 (by sys.exit(1),
\* or by the traceback of a ValueError that older releases of requests raise
\* for a body that is not JSON).
ResolveFails ==
    /\ pc = "resolving"
    /\ \E o \in TagsOutcomes :
        /\ ResolveAborts(o)
        /\ tagsAnswer' = o
    /\ Exit(ExitFatal)
    /\ UNCHANGED <<model_name, tagsQueries, log, conf, openError, interrupted,
                   rdr, http, out>>

\* Lines 112-120: the GET answers with a catalog of at least one model.
ResolveOk ==
    /\ pc = "resolving"
    /\ \E o \in TagsOutcomes :
        /\ ~ResolveAborts(o)
        /\ tagsAnswer' = o
        /\ model_name' = FirstModel(o.models)
    /\ pc' = "open"
    /\ UNCHANGED <<tagsQueries, log, conf, ends, rdr, http, out>>

\* Lines 126-131: the scope to read: the one asked for, else by privilege.
JournalType(arg, root) ==
    IF arg = NoScope THEN (IF root THEN "system" ELSE "user") ELSE arg

\* Lines 150-158: journal.Reader() without flags; the code's comment has it
\* pick the journal by the effective user id.
LegacyScope(root) == IF root THEN "system" ELSE "user"

\* Mutant: the fallback of lines 150-158 always reads the system journal.
OpenedScope_LegacySystem(journal_type, root, old) ==
    IF old THEN "system" ELSE journal_type

\* Lines 142-158: the scope the reader is opened at: the flags of lines
\* 143 and 148 with the modern library, the fallback without them.
OpenedScope(journal_type, root, old) ==
    IF old THEN LegacyScope(root) ELSE journal_type

\* Lines 139-158: journal.Reader(...) returns a reader.
OpenReader ==
    /\ pc = "open"
    /\ readerOpen' = TRUE
    /\ openedScope' = OpenedScope(JournalType(journal_type_arg, is_root),
                                  is_root, legacy)
    /\ nPre' = Len(log)
    /\ pc' = "seek"
    /\ UNCHANGED <<model_name, tags, log, conf, ends, cursor, waited,
                   cur, delivered, batchStart, http, out>>

\* Mutant: the handlers end the process with status 0.
OpenFailureStatus_Zero(err) == 0

\* Lines 167, 172: both handlers call sys.exit(1).
OpenFailureStatus(err) == ExitFatal

\* Lines 139-172: journal.Reader(...), seek_tail() or get_previous() raises
\* FileNotFoundError or PermissionError; the handler prints the error and
\* ends the process.
OpenFails ==
    /\ pc \in {"open", "seek", "prev"}
    /\ \E err \in OpenErrors :
        /\ openError' = err
        /\ Exit(OpenFailureStatus(err))
    /\ UNCHANGED <<model_name, tags, log, conf, interrupted, rdr, http, out>>

\* Line 161: reader.seek_tail() marks the reader as positioned at the end;
\* the position is resolved by the next move.
SeekTail ==
    /\ pc = "seek"
    /\ pc' = "prev"
    /\ UNCHANGED <<model_name, tags, log, conf, ends, rdr, http, out>>

\* Line 163: reader.get_previous(); its result is discarded.
GetPrevious ==
    /\ pc = "prev"
    /\ cursor' = GetPreviousPos(log)
    /\ pc' = "wait"
    /\ UNCHANGED <<model_name, tags, log, conf, ends, readerOpen, openedScope, nPre,
                   waited, cur, delivered, batchStart, http, out>>

\* Line 186: reader.wait() returns NOP, APPEND or INVALIDATE; only NOP is
\* false.
Wait ==
    /\ pc = "wait"
    /\ waited' = TRUE
    /\ \E r \in {"NOP", "APPEND", "INVALIDATE"} :
        pc' = IF r = "NOP" THEN "wait" ELSE "iter"
    /\ batchStart' = Len(delivered)
    /\ UNCHANGED <<model_name, tags, log, conf, ends, readerOpen, openedScope, nPre,
                   cursor, cur, delivered, http, out>>

-----------------------------------------------------------------------------
(* The loop of lines 184-189 and process_entry *)

\* Line 188: the iteration over the reader finds no further record.
IterEnd ==
    /\ pc = "iter"
    /\ cursor >= Len(log)
    /\ pc' = "wait"
    /\ UNCHANGED <<model_name, tags, log, conf, ends, rdr, http, out>>

\* Line 188: get_next() hands the next record to the loop body.
Deliver ==
    /\ cursor < Len(log)
    /\ cur' = NextRecord(cursor)
    /\ cursor' = GetNextPos(cursor)
    /\ delivered' = Append(delivered, cur')

\* Lines 188-189, 26-29: the next record is not eligible; process_entry
\* returns at once.
SkipEntry ==
    /\ pc = "iter"
    /\ Deliver
    /\ ~IsEligible(log[cur'])
    /\ UNCHANGED <<pc, model_name, tags, log, conf, ends, readerOpen, openedScope,
                   nPre, waited, batchStart, http, out>>

\* Lines 188-189, 31: rendering the prompt raises outside the try block of
\* process_entry; main() catches KeyboardInterrupt only, so the exception
\* ends the process with a traceback.
RenderFails ==
    /\ pc = "iter"
    /\ Deliver
    /\ IsEligible(log[cur'])
    /\ FormatRaises(prompt_template)
    /\ Exit(ExitFatal)
    /\ UNCHANGED <<model_name, tags, log, conf, openError, interrupted,
                   readerOpen, openedScope, nPre, waited, batchStart, http, out>>

\* Lines 188-189, 31-39: the prompt is built and the POST is sent.
SendEntry ==
    /\ pc = "iter"
    /\ Deliver
    /\ IsEligible(log[cur'])
    /\ ~FormatRaises(prompt_template)
    /\ requests' = Append(requests,
            [rec |-> cur',
             model |-> model_name,
             prompt |-> Format(prompt_template, GetMessage(log[cur']).val)])
    /\ inFlight' = inFlight + 1
    /\ pc' = "post"
    /\ UNCHANGED <<model_name, tags, log, conf, ends, readerOpen, openedScope,
                   nPre, waited, batchStart, answer, content, out>>

\* Line 39: requests.post(...) returns an answer or raises.
PostReturns ==
    /\ pc = "post"
    /\ \E o \in PostOutcomes : answer' = o
    /\ inFlight' = inFlight - 1
    /\ pc' = "recv"
    /\ UNCHANGED <<model_name, tags, log, conf, ends, rdr, requests,
                   content, out>>

\* The requests library raises JSONDecodeError as a RequestException in its
\* newer releases and as a plain ValueError in its older ones.
JsonErrorKinds == {"ERROR_contact", "ERROR_unexpected"}

\* Lines 39-56: the diagnostics an answer that yields no content can produce;
\* the empty set when the answer yields content.
FailureKinds(o) ==
    IF o.kind = "neterr" THEN {"ERROR_contact"}
    ELSE IF RaiseForStatus(o.status) THEN {"ERROR_contact"}
    ELSE IF JsonRaises(o.body) THEN JsonErrorKinds
    ELSE IF ContentRaises(o.body) THEN {"ERROR_unexpected"}
    ELSE IF Content(o.body) = <<>> THEN {"WARNING_empty"}
    ELSE {}

\* Lines 39-44, 50-56: the POST ends without content to record; the failure
\* or the warning is printed and process_entry returns.
PostSkipped ==
    /\ pc = "recv"
    /\ \E k \in FailureKinds(answer) : diag' = Report(diag, cur, k)
    /\ answer' = NoAnswer
    /\ pc' = "iter"
    /\ UNCHANGED <<model_name, tags, log, conf, ends, rdr, requests, inFlight,
                   content, fileExists, file, handleOpen, buf>>

\* Lines 40-46: the answer holds content and open(output_file, 'a')
\* succeeds, creating the file when it is missing.
PostOpens ==
    /\ pc = "recv"
    /\ FailureKinds(answer) = {}
    /\ content' = Content(answer.body)
    /\ fileExists' = TRUE
    /\ handleOpen' = TRUE
    /\ buf' = <<>>
    /\ pc' = "opened"
    /\ UNCHANGED <<model_name, tags, log, conf, ends, rdr, requests, inFlight,
                   answer, file, diag>>

\* Lines 46, 55-56: the answer holds content and open() raises OSError.
OpenFileFails ==
    /\ pc = "recv"
    /\ FailureKinds(answer) = {}
    /\ diag' = Report(diag, cur, "ERROR_unexpected")
    /\ answer' = NoAnswer
    /\ pc' = "iter"
    /\ UNCHANGED <<model_name, tags, log, conf, ends, rdr, requests, inFlight,
                   content, fileExists, file, handleOpen, buf>>

\* Line 47: the first write goes to the buffer of the handle.
WriteEntry ==
    /\ pc = "opened"
    /\ buf' = Append(buf, EntryChunk(cur, GetMessage(log[cur]).val))
    /\ pc' = "wrote1"
    /\ UNCHANGED <<model_name, tags, log, conf, ends, rdr, http,
                   fileExists, file, handleOpen, diag>>

\* Mutant: the handle comes from a plain open() and nothing closes it.
WithExit_Leaks(open) == open

\* Line 46: leaving the with block closes the handle, also when the block
\* is left by an exception.
WithExit(open) == FALSE

\* process_entry leaves the with block: the handle is closed, its buffer
\* flushed (or lost when the flush fails), and the diagnostic is printed.
LeaveWith(chunks, flushOk, kind) ==
    /\ file' = Closed(file, chunks, flushOk)
    /\ handleOpen' = WithExit(handleOpen)
    /\ buf' = <<>>
    /\ content' = <<>>
    /\ diag' = Report(diag, cur, kind)
    /\ answer' = NoAnswer
    /\ pc' = "iter"
    /\ UNCHANGED <<model_name, tags, log, conf, ends, rdr, requests, inFlight,
                   fileExists>>

\* Lines 47, 55-56: the first write raises; the handle is closed.
WriteEntryFails ==
    /\ pc = "opened"
    /\ \E flushOk \in BOOLEAN : LeaveWith(buf, flushOk, "ERROR_unexpected")

\* Lines 48-49: the second write goes to the buffer, the with block is left,
\* the buffer is flushed and the INFO line is printed.
WriteAnalysis ==
    /\ pc = "wrote1"
    /\ LeaveWith(Append(buf, AnalysisChunk(cur, content)), TRUE, "INFO_saved")

\* Lines 48, 55-56: the second write raises (an encoding error of the
\* response text, an I/O error); the with block closes the handle, which
\* flushes what the first write left in the buffer.
WriteAnalysisFails ==
    /\ pc = "wrote1"
    /\ \E flushOk \in BOOLEAN : LeaveWith(buf, flushOk, "ERROR_unexpected")

\* Lines 48, 55-56: both writes are buffered and the flush on leaving the
\* with block fails; close() raises and nothing reaches the file.
CloseFails ==
    /\ pc = "wrote1"
    /\ LeaveWith(Append(buf, AnalysisChunk(cur, content)), FALSE, "ERROR_unexpected")

-----------------------------------------------------------------------------
(* Operator interruption *)

\* Death by the default action of SIGINT, as a subprocess return code.
KilledBySigint == 0 - 2

\* Exit status of a KeyboardInterrupt that no handler catches: the
\* interpreter prints the traceback and ends with status 1, or (interpreters
\* from 3.8 on) ends by the default action of SIGINT.
UncaughtInterruptStatuses == {ExitFatal, KilledBySigint}

\* Lines 183-195: SIGINT inside the loop raises KeyboardInterrupt, which is
\* no Exception: it leaves process_entry (closing an open handle on its way
\* out of the with block) and is caught by main(): sys.exit(130).
InterruptInLoop ==
    /\ pc \in LoopPCs
    /\ interrupted' = TRUE
    /\ \E flushOk \in BOOLEAN : file' = Closed(file, buf, flushOk)
    /\ handleOpen' = WithExit(handleOpen)
    /\ buf' = <<>>
    /\ Exit(ExitInterrupted)
    /\ UNCHANGED <<model_name, tags, log, conf, openError, rdr, http,
                   fileExists, diag>>

\* Lines 100-181: SIGINT before the loop is entered; no handler is in place.
InterruptAtStartup ==
    /\ pc \in PCs \ (LoopPCs \cup {"exit"})
    /\ interrupted' = TRUE
    /\ \E st \in UncaughtInterruptStatuses : Exit(st)
    /\ UNCHANGED <<model_name, tags, log, conf, openError, rdr, http, out>>

Next ==
    \/ AppendLog
    \/ Start
    \/ ResolveFails
    \/ ResolveOk
    \/ OpenReader
    \/ OpenFails
    \/ SeekTail
    \/ GetPrevious
    \/ Wait
    \/ IterEnd
    \/ SkipEntry
    \/ RenderFails
    \/ SendEntry
    \/ PostReturns
    \/ PostSkipped
    \/ PostOpens
    \/ OpenFileFails
    \/ WriteEntry
    \/ WriteEntryFails
    \/ WriteAnalysis
    \/ WriteAnalysisFails
    \/ CloseFails
    \/ InterruptInLoop
    \/ InterruptAtStartup

Spec == Init /\ [][Next]_vars

\* The same program, started from the command lines of ScopeInit.
ScopeSpec == ScopeInit /\ [][Next]_vars

\* Line 186: reader.wait() blocks until the journal changes; with a record
\* beyond the reader's position it returns a true value.
Wake ==
    /\ Wait
    /\ cursor < Len(log)
    /\ pc' = "iter"

\* Lines 184-189: the steps of the loop and of process_entry that the
\* process takes by itself once it can: the interpreter keeps running, a
\* blocked wait is woken by a new record, and requests.post returns or
\* times out (timeout=30, line 39).
Driver ==
    \/ Wake
    \/ IterEnd
    \/ SkipEntry
    \/ RenderFails
    \/ SendEntry
    \/ PostReturns
    \/ PostSkipped
    \/ PostOpens
    \/ OpenFileFails
    \/ WriteEntry
    \/ WriteEntryFails
    \/ WriteAnalysis
    \/ WriteAnalysisFails
    \/ CloseFails

\* The program under that scheduling; interruption stays possible and is
\* excused in the liveness property itself.
LiveSpec == Init /\ [][Next]_vars /\ WF_vars(Driver)

-----------------------------------------------------------------------------
(* Properties *)

\* Some element of the sequence is about record i.
Mentions(seq, i) == \E k \in DOMAIN seq : seq[k].rec = i

\* The chunks of the file written by this run.
Blocks(f) == SelectSeq(f, LAMBDA c : c.part # "old")

\* The message field is absent, empty or not text.
LacksTextMessage(e) ==
    \/ ~e.has
    \/ e.MESSAGE.type # "str"
    \/ Len(e.MESSAGE.val) = 0

\* C1: once the loop is entered, no failure while processing a record ends
\* the process; the process leaves the loop only by operator interruption,
\* with status 130.
C1_LoopEndsOnlyByInterrupt ==
    (pc = "exit" /\ exitFrom \in LoopPCs)
        => (interrupted /\ exitStatus = ExitInterrupted)

\* C2: a delivered record whose message is absent, empty or not text causes
\* no request, no chunk in the output file or in the handle's buffer and no
\* diagnostic, and it is not delivered again.
C2_IneligibleLeavesNoTrace ==
    \A i \in 1..Len(log) :
        LacksTextMessage(log[i]) =>
            /\ ~Mentions(requests, i)
            /\ ~Mentions(file, i)
            /\ ~Mentions(buf, i)
            /\ ~Mentions(diag, i)
            /\ Cardinality({k \in DOMAIN delivered : delivered[k] = i}) <= 1
            /\ (cur = i => pc \in {"iter", "wait", "exit"})

\* A binary record and an empty record have both been handed to
\* process_entry and the loop is back in wait.
C2_Witness ==
    /\ pc = "wait"
    /\ Len(delivered) = 2
    /\ log[delivered[1]].MESSAGE.type = "bytes"
    /\ LacksTextMessage(log[delivered[2]])
    /\ log[delivered[2]].MESSAGE.type = "str"

\* C3: no record the journal held when the reader was opened is ever passed
\* to process_entry, sent in a request or written to the output file.
C3_NoBacklogReplay ==
    /\ \A k \in DOMAIN delivered : delivered[k] > nPre
    /\ \A i \in 1..nPre :
        /\ ~Mentions(requests, i)
        /\ ~Mentions(file, i)
        /\ ~Mentions(buf, i)

\* The journal held exactly one record, an eligible one, when the reader was
\* opened; a later record has been processed and its block written.
C3_Witness ==
    /\ nPre = 1
    /\ IsEligible(log[1])
    /\ \E k \in DOMAIN file : file[k].part = "analysis" /\ file[k].rec > nPre

\* C4: every record is passed to process_entry at most once, is sent in at
\* most one request and gets at most one entry chunk and one analysis chunk.
C4_AtMostOnce ==
    /\ \A j, k \in DOMAIN delivered :
        j # k => delivered[j] # delivered[k]
    /\ \A j, k \in DOMAIN requests :
        j # k => requests[j].rec # requests[k].rec
    /\ \A j, k \in DOMAIN file :
        (j # k /\ file[j].part # "old" /\ file[j].part = file[k].part)
            => file[j].rec # file[k].rec

\* The first record's request failed, a second record was handled after it
\* in a later wait cycle, and the loop is back in wait: the failed record
\* was not tried again.
C4_Witness ==
    /\ pc = "wait"
    /\ Len(delivered) = 2
    /\ batchStart = 1
    /\ Len(requests) = 2
    /\ Len(diag) = 2
    /\ diag[1].rec = delivered[1]
    /\ diag[1].kind = "ERROR_contact"

\* C5: the chunks of the output file are in the journal's order, and while
\* the request for a record is in flight or being handled, the handle is
\* closed and every chunk in the file is about an earlier record.
C5_OutputInArrivalOrder ==
    /\ \A j, k \in DOMAIN Blocks(file) :
        j < k =>
            /\ Blocks(file)[j].rec <= Blocks(file)[k].rec
            /\ Blocks(file)[j].part = Blocks(file)[k].part
                => Blocks(file)[j].rec < Blocks(file)[k].rec
    /\ pc \in {"post", "recv"} =>
        /\ buf = <<>>
        /\ \A k \in DOMAIN file : file[k].rec < cur

\* Two records delivered in one wait cycle have both got a block.
C5_Witness ==
    /\ pc = "iter"
    /\ Len(delivered) = batchStart + 2
    /\ \E j, k \in DOMAIN file :
        /\ j < k
        /\ file[j].part = "analysis"
        /\ file[k].part = "analysis"
        /\ file[j].rec = delivered[batchStart + 1]
        /\ file[k].rec = delivered[batchStart + 2]


\* C6: in every state the chunks this run has put in the output file form
\* complete blocks: an entry chunk followed by the analysis chunk of the
\* same record.
C6_OnlyCompleteBlocks ==
    LET g == Blocks(file)
    IN  /\ Len(g) % 2 = 0
        /\ \A i \in 1..(Len(g) \div 2) :
            /\ g[2 * i - 1].part = "entry"
            /\ g[2 * i].part = "analysis"
            /\ g[2 * i - 1].rec = g[2 * i].rec

\* C7: an operator interruption, in whatever position it arrives, ends the
\* process with status 130.
C7_InterruptExits130 ==
    interrupted => (pc = "exit" /\ exitStatus = ExitInterrupted)

\* The process ended with status 1 while resolving the model: the reader was
\* never opened, no wait was made, no record was handled, no request was
\* sent and the output file is as it was at the start.
AbortedInResolving ==
    /\ pc = "exit"
    /\ exitStatus = ExitFatal
    /\ exitFrom = "resolving"
    /\ ~interrupted
    /\ ~readerOpen
    /\ ~waited
    /\ delivered = <<>>
    /\ requests = <<>>
    /\ buf = <<>>
    /\ file = (IF fileExists THEN <<OldChunk>> ELSE <<>>)
    /\ diag = <<>>

\* C8 as stated: a network error, a status outside 200..299 or an empty
\* catalog ends the process with status 1 in Resolving.
C8_Non2xxIsFatal ==
    ( \/ tagsAnswer.kind = "neterr"
      \/ tagsAnswer.kind = "http" /\ tagsAnswer.status \notin 200..299
      \/ tagsAnswer.kind = "http" /\ tagsAnswer.models = <<>> )
        => AbortedInResolving

\* C8 amended: a network error, a 4xx or 5xx status or an empty catalog ends
\* the process with status 1 in Resolving, before the reader is opened.
C8_ResolveFailureIsFatal ==
    ( \/ tagsAnswer.kind = "neterr"
      \/ tagsAnswer.kind = "http" /\ tagsAnswer.status \in 400..599
      \/ tagsAnswer.kind = "http" /\ tagsAnswer.models = <<>> )
        => AbortedInResolving

\* No model was configured and the service answered 200 with an empty
\* catalog: the process has ended.
C8_Witness ==
    /\ args_model = ""
    /\ pc = "exit"
    /\ tagsAnswer.kind = "http"
    /\ tagsAnswer.status = 200
    /\ tagsAnswer.json = "object"
    /\ tagsAnswer.models = <<>>

\* A step in which process_entry returns to the loop.
Returns == pc \in {"recv", "opened", "wrote1"} /\ pc' = "iter"

\* A step of process_entry between the call and the answer of the POST.
Calls == pc \in {"iter", "post"} /\ pc' \in {"post", "recv"}

\* The step leaves the output file alone and prints one diagnostic of the
\* given kinds about the current record.
FileKeptAndReported(kinds) ==
    /\ file' = file
    /\ fileExists' = fileExists
    /\ Len(diag') = Len(diag) + 1
    /\ SubSeq(diag', 1, Len(diag)) = diag
    /\ diag'[Len(diag')].rec = cur
    /\ diag'[Len(diag')].kind \in kinds

ErrorKinds == {"ERROR_contact", "ERROR_unexpected"}

\* C9 as stated: when the POST fails by a network error, a status outside
\* 200..299 or a body that is not JSON, process_entry returns with the file
\* as it was and an error or a warning printed.
C9_Non2xxKeepsFile ==
    [][ /\ Calls => (file' = file /\ fileExists' = fileExists)
        /\ ( /\ Returns
             /\ \/ answer.kind = "neterr"
                \/ answer.kind = "http" /\ answer.status \notin 200..299
                \/ answer.kind = "http" /\ answer.body.json = "malformed" )
            => FileKeptAndReported(ErrorKinds \cup {"WARNING_empty"}) ]_vars

\* C9 amended: when the POST fails by a network error, a 4xx or 5xx status
\* or a body that is not JSON, the file is the same from the call of
\* process_entry to its return, an error is printed and the loop goes on.
C9_FailureKeepsFile ==
    [][ /\ Calls => (file' = file /\ fileExists' = fileExists)
        /\ ( /\ Returns
             /\ \/ answer.kind = "neterr"
                \/ answer.kind = "http" /\ answer.status \in 400..599
                \/ answer.kind = "http" /\ answer.body.json = "malformed" )
            => FileKeptAndReported(ErrorKinds) ]_vars

\* A record with a block was followed by a record whose request failed;
\* the file holds the first block and nothing else, and the loop goes on.
C9_Witness ==
    /\ pc = "iter"
    /\ Len(delivered) = 2
    /\ Len(diag) = 2
    /\ diag[1].kind = "INFO_saved"
    /\ diag[2].kind = "ERROR_contact"
    /\ diag[2].rec = delivered[2]
    /\ Len(Blocks(file)) = 2
    /\ ~Mentions(file, delivered[2])

\* The service answered with a 2xx status and a JSON object whose response
\* is missing or holds whitespace only.
EmptyAnswer(a) ==
    /\ a.kind = "http"
    /\ a.status \in 200..299
    /\ a.body.json = "object"
    /\ \/ ~a.body.hasResponse
       \/ /\ a.body.response.type = "str"
          /\ \A i \in DOMAIN a.body.response.val :
                a.body.response.val[i] \in Whitespace

\* C10: on an empty answer process_entry prints the warning, neither creates
\* nor changes the output file, and returns to the loop.
C10_EmptyAnswerSkipped ==
    [][ (pc = "recv" /\ EmptyAnswer(answer) /\ pc' \notin {"recv", "exit"})
            => /\ pc' = "iter"
               /\ file' = file
               /\ fileExists' = fileExists
               /\ buf' = buf
               /\ diag' = Append(diag, [rec |-> cur, kind |-> "WARNING_empty"]) ]_vars

\* The first record got the warning, the output file still does not exist,
\* and a second record has been delivered after it.
C10_Witness ==
    /\ Len(delivered) = 2
    /\ Len(diag) >= 1
    /\ diag[1].kind = "WARNING_empty"
    /\ diag[1].rec = delivered[1]
    /\ ~fileExists
    /\ file = <<>>


\* s is an initial part of t.
IsPrefix(s, t) == Len(s) <= Len(t) /\ SubSeq(t, 1, Len(s)) = s

\* C11: in every step the previous contents of the output file are an
\* initial part of its new contents, and a file that exists keeps existing.
C11_AppendOnly ==
    [][ IsPrefix(file, file') /\ (fileExists => fileExists') ]_vars

\* A file that existed before the run still starts with its old contents
\* after two appends of this run.
C11_Witness ==
    /\ file # <<>>
    /\ file[1] = OldChunk
    /\ Len(Blocks(file)) = 4

\* sub occurs in s as a contiguous run of tokens.
Contains(s, sub) ==
    \E i \in 1..(Len(s) + 1) :
        /\ i + Len(sub) - 1 <= Len(s)
        /\ SubSeq(s, i, i + Len(sub) - 1) = sub

\* The requests sent for the delivered record i.
RequestsFor(i) == {j \in DOMAIN requests : requests[j].rec = i}

\* The template has the message placeholder and no other replacement field.
TemplateIsValid(tpl) ==
    /\ \E i \in 1..Len(tpl) : tpl[i] = MessageField
    /\ \A i \in 1..Len(tpl) : tpl[i] \notin {OtherField, LoneBrace}

\* C12: every eligible record that was delivered has exactly one request,
\* whose prompt holds the record's whole message text, and a template
\* without the message placeholder or with another placeholder never gets
\* as far as the wait/process loop.
C12_OnePromptWithMessage ==
    /\ \A k \in DOMAIN delivered :
        LET i == delivered[k]
        IN  IsEligible(log[i]) =>
                /\ Cardinality(RequestsFor(i)) = 1
                /\ \A j \in RequestsFor(i) :
                       Contains(requests[j].prompt, GetMessage(log[i]).val)
    /\ pc \in LoopPCs => TemplateIsValid(prompt_template)

\* The start-up has got past the resolution of the model name.
Resolved ==
    /\ pc \notin {"start", "resolving"}
    /\ exitFrom \notin {"start", "resolving"}

\* C13: a configured model is used as given and the model list is never
\* asked for; without one the list is asked for once, at start-up, and its
\* first entry is used; every request carries the model so chosen.
C13_ModelResolution ==
    /\ args_model # "" =>
        /\ tagsQueries = 0
        /\ tagsAnswer = NoTagsAnswer
        /\ Resolved => model_name = args_model
        /\ \A j \in DOMAIN requests : requests[j].model = args_model
    /\ args_model = "" =>
        /\ tagsQueries <= 1
        /\ Resolved => tagsQueries = 1
        /\ Resolved =>
            /\ model_name = Head(tagsAnswer.models)
            /\ tagsAnswer.models = <<"llama3", "phi3">> => model_name = "llama3"
        /\ \A j \in DOMAIN requests :
               requests[j].model = Head(tagsAnswer.models)

\* No model was configured, the catalog listed llama3 before phi3, and two
\* requests were sent with llama3.
C13_Witness ==
    /\ args_model = ""
    /\ tagsAnswer.models = <<"llama3", "phi3">>
    /\ Len(requests) = 2
    /\ requests[2].model = "llama3"

\* C14: when opening or positioning the journal reader fails with
\* permission denied or with the journal service missing, the process has
\* ended with status 1 from the start-up, without any wait, any delivered
\* record, any request or any output.
C14_OpenFailureIsFatal ==
    openError \in OpenErrors =>
        /\ pc = "exit"
        /\ exitStatus = ExitFatal
        /\ exitFrom \in {"open", "seek", "prev"}
        /\ ~waited
        /\ delivered = <<>>
        /\ requests = <<>>
        /\ inFlight = 0
        /\ Blocks(file) = <<>>
        /\ fileExists <=> file # <<>>
        /\ diag = <<>>

\* Positioning an opened reader fails with permission denied while the
\* journal already holds a record to report.
C14_Witness ==
    /\ openError = "PermissionError"
    /\ exitFrom = "prev"
    /\ readerOpen
    /\ Len(log) > nPre

\* The scope the command line and the privilege select.
SelectedScope ==
    IF journal_type_arg \in Scopes THEN journal_type_arg
    ELSE IF is_root THEN "system" ELSE "user"

\* The scope that follows from the privilege alone.
ScopeOfPrivilege == IF is_root THEN "system" ELSE "user"

\* C15, as stated: with either level of the journal library the reader is
\* opened at the scope given on the command line, or without one at system
\* for a privileged process and at user for an unprivileged one.
C15_OpenedAtSelectedScope ==
    readerOpen => openedScope = SelectedScope

\* C15, amended: with the modern library the reader is opened at the
\* selected scope; with the legacy library the scope of the command line is
\* ignored and the reader is opened at the scope of the privilege.
C15_OpenedAtScopeOfLibrary ==
    readerOpen =>
        openedScope = (IF legacy THEN ScopeOfPrivilege ELSE SelectedScope)

\* A privileged process with the legacy library was asked for the user
\* journal and has opened its reader.
C15_Witness ==
    /\ readerOpen
    /\ legacy
    /\ is_root
    /\ journal_type_arg = "user"
    /\ pc = "wait"

\* The position get_previous() left the reader at: the records beyond it
\* are the ones that arrived after the reader was opened and positioned.
TailPos == IF delivered = <<>> THEN cursor ELSE delivered[1] - 1

\* Record i has been passed to process_entry.
WasDelivered(i) == \E k \in DOMAIN delivered : delivered[k] = i

\* C16: unless the operator interrupts, every record that arrives after the
\* reader was opened and positioned is eventually passed to process_entry,
\* and the driver does not stay in wait for ever with a record undelivered.
C16_EveryRecordDelivered ==
    /\ \A i \in 1..MaxLog :
        (pc \in LoopPCs /\ i <= Len(log) /\ i > TailPos)
            ~> (WasDelivered(i) \/ interrupted)
    /\ ~<>[](pc = "wait" /\ cursor < Len(log))

\* C17: at most one request is in flight; while one is, the output handle
\* is closed and nothing is buffered, and every earlier request has had its
\* record's processing ended with a diagnostic (saved, skipped or failed);
\* the handle is closed and no request is in flight while the driver waits.
C17_OneRecordAtATime ==
    /\ inFlight \in {0, 1}
    /\ inFlight = 1 =>
        /\ pc = "post" \/ (pc = "exit" /\ exitFrom = "post")
        /\ ~handleOpen
        /\ buf = <<>>
        /\ answer = NoAnswer
        /\ requests # <<>> /\ requests[Len(requests)].rec = cur
    /\ \A j \in DOMAIN requests :
        j < Len(requests) => Mentions(diag, requests[j].rec)
    /\ pc = "wait" => ~handleOpen /\ inFlight = 0
    /\ handleOpen => pc \in {"opened", "wrote1"}

\* The request for the second record is in flight after the block of the
\* first record was written.
C17_Witness ==
    /\ pc = "post"
    /\ inFlight = 1
    /\ Len(requests) = 2
    /\ Len(Blocks(file)) = 2

\* The answer is a 2xx status whose body parsed as JSON and holds a
\* response text that is not empty once stripped.
AnswerIs2xxWithText(a) ==
    /\ a.kind = "http"
    /\ a.status \in 200..299
    /\ ~JsonRaises(a.body)
    /\ ~ContentRaises(a.body)
    /\ Content(a.body) # <<>>

\* The step prints the INFO line of line 49: both writes and the close of
\* the handle went through.
WriteSucceeded ==
    /\ Len(diag') = Len(diag) + 1
    /\ diag'[Len(diag')] = [rec |-> cur, kind |-> "INFO_saved"]

\* C18: a step appends to the output file exactly when process_entry
\* returns for an eligible record whose POST was answered 2xx with a JSON
\* body and a non-empty stripped response text and whose write succeeded;
\* what it appends is the block of the record's message and that text; and
\* the output file is opened only once the answer has been received.
C18_BlockIffAllSucceeded ==
    [][ /\ file' # file <=>
            /\ Returns
            /\ IsEligible(log[cur])
            /\ AnswerIs2xxWithText(answer)
            /\ WriteSucceeded
        /\ file' # file =>
            file' = file \o <<EntryChunk(cur, GetMessage(log[cur]).val),
                              AnalysisChunk(cur, Content(answer.body))>>
        /\ (handleOpen' /\ ~handleOpen) => (pc = "recv" /\ answer.kind = "http")
      ]_vars

====
